---- MODULE Spec2Model ----
(***************************************************************************)
(* starwarden: the reconciler run_update (src/starwarden/main.py), the     *)
(* link uploader upload_link and the destination index get_existing_links  *)
(* (src/starwarden/linkwarden_api.py), the source lister                  *)
(* get_starred_repos and the backoff handle_rate_limit                     *)
(* (src/starwarden/github_api.py), run against a Linkwarden destination    *)
(* that keeps a list of links and answers a create request for a URL it    *)
(* already holds with 409 "Link already exists".                           *)
(***************************************************************************)
EXTENDS Integers, Sequences, FiniteSets, TLC

(* ---- bounds of the model ---- *)
MaxRepos == 2
MaxInitLinks == 2
MaxHeaderLen == 2
MaxRuns == 2
PageSize == 1
MaxDescLen == 2051
MaxStarred == 61
MaxFaults == 2
MaxUploads == 2
MaxCustomLen == 4
MaxDuplicates == 201
MaxLegacyUrls == 3
MaxLegacyPage == 2
MaxRequests == 4

(* ---- program constants ---- *)
\* main.py:37, the collection_id argument of run_update
collection_id == 1
\* a collection of the same account other than the requested one
other_collection_id == 2
\* main.py:67
max_retries == 3
\* main.py:90, the default of headers.get("Retry-After", 60)
DefaultRetryAfter == 60
\* github_api.py:40, the default of e.headers.get("Retry-After", 60)
HandlerDefaultRetryAfter == 60
\* linkwarden_api.py:144, the longest description sent unchanged
DescriptionLimit == 2048
\* linkwarden_api.py:145, the characters kept of a longer one
DescriptionKept == 2045
\* github_api.py:21, the repos of one page of starred.get_page
PerPage == 30
\* linkwarden_api.py:76
batch_size == 100

VARIABLES
    uploader,            \* "upload_link": linkwarden_api.upload_link is called;
                         \* "side_effect": upload_link is patched and returns or raises at will
    repos,               \* the sequence get_starred_repos yields (unchanged between runs)
    links,               \* destination: sequence of [id, url, collectionId]
    next_id,             \* destination: identifier the next created link gets
    run,                 \* number of the current invocation of run_update
    prev,                \* summary of the preceding run
    pc,                  \* position of run_update
    cursor,              \* get_existing_links: cursor ({} is None, {c} is c)
    seen_urls,           \* get_existing_links: seen_urls
    duplicate_link_ids,  \* get_existing_links: duplicate_link_ids
    yielded,             \* sequence of URLs the generator has yielded
    requested,           \* cursors of the listing requests made, in order
    returned,            \* links the destination returned to them, in order
    list_error,          \* a listing request raised a RequestException
    first_id,            \* next_id of the destination when the run began
    notifications,       \* calls of notify.send_notification made by run_update
    existing_links,      \* run_update: existing_links
    idx,                 \* number of repos taken from get_starred_repos
    retry_count,         \* run_update: retry_count
    successful_uploads,
    failed_uploads,
    skipped_uploads,
    progress,            \* sum of progress.update(task, advance=1)
    calls,               \* upload_link calls made for the current repo
    response,            \* HTTP response of the latest create-link request
    outcome,             \* what the latest upload_link call returned or raised
    sleeps,              \* durations time.sleep was called with for the current repo
    counted,             \* counter incremented for the current repo ("none" if none yet)
    exc,                 \* exception that left run_update ("none" if none)
    description,         \* upload_link: repo.description (None or a str)
    link_data,           \* upload_link: {} before link_data is built, then {link_data}
    totalCount,          \* get_starred_repos: starred.totalCount
    page_num,            \* get_starred_repos: page_num (total_pages once the loop has ended)
    source_pc,           \* position of get_starred_repos
    source_yielded,      \* sequence of repos get_starred_repos has yielded
    page_requests,       \* page numbers starred.get_page was called with, in order
    source_sleeps,       \* durations time.sleep was called with by get_starred_repos
    error,               \* exception the latest get_page raised (NoError if none)
    source_exc,          \* exception that left get_starred_repos ("none" if none)
    environ,             \* names of the environment variables that are set
    args_id,             \* args.id ({} if -id was not given, else {id})
    main_pc,             \* position of the process (__main__ and main())
    flavor,              \* main(): flavor, the menu option chosen (0 before)
    chosen,              \* collection_id run_update is called with ({} before)
    issued,              \* requests the process sent to Linkwarden and GitHub, in order
    failure,             \* what went wrong during setup ("none" if nothing)
    item_failures,       \* run_update: failed_uploads > 0 at the end of the loop
    exit_code,           \* exit status of the process ({} while it runs)
    config_data,         \* build_tags: the options of config_data
    language,            \* build_tags: repo.language (None or a str)
    tags,                \* build_tags: {} before the call, then {the list returned}
    delete_duplicate,    \* get_existing_links: the argument delete_duplicate
    to_delete,           \* get_existing_links: duplicate_link_ids of a long listing
    delete_pc,           \* position of get_existing_links in that listing
    batch_i,             \* get_existing_links: i of the for loop over the batches
    batches,             \* calls of delete_links: the ids submitted and the result
    total_deleted,       \* get_existing_links: total_deleted
    legacy_page,         \* LinkwardenManager.get_existing_links: page
    seen_links,          \* LinkwardenManager.get_existing_links: seen_links
    legacy_pc,           \* position of LinkwardenManager.get_existing_links
    legacy_yielded,      \* URLs that generator has yielded, in order
    page_log             \* its requests: the page asked for, the new URLs found

\* the variables of a run of run_update
reconciler == <<uploader, repos, links, next_id, run, prev, pc, cursor,
                seen_urls, duplicate_link_ids, yielded, requested, returned,
                list_error, first_id, notifications, existing_links, idx,
                retry_count,
                successful_uploads, failed_uploads, skipped_uploads, progress,
                calls, response, outcome, sleeps, counted, exc>>
\* the variables of the request body upload_link builds
payload == <<description, link_data>>
\* the variables of get_starred_repos
source == <<totalCount, page_num, source_pc, source_yielded, page_requests,
            source_sleeps, error, source_exc>>
\* the variables of the process around run_update
process == <<environ, args_id, main_pc, flavor, chosen, issued, failure,
             item_failures, exit_code>>
\* the variables of build_tags
tagging == <<config_data, language, tags>>
\* the variables of the deletion of duplicates
deletion == <<delete_duplicate, to_delete, delete_pc, batch_i, batches,
              total_deleted>>
\* the variables of the page-based listing of src/starwarden.py
legacy == <<legacy_page, seen_links, legacy_pc, legacy_yielded, page_log>>
vars == <<reconciler, payload, source, process, tagging, deletion, legacy>>
\* all variables but those of one component
not_payload == <<reconciler, source, process, tagging, deletion, legacy>>
not_source == <<reconciler, payload, process, tagging, deletion, legacy>>
not_process == <<reconciler, payload, source, tagging, deletion, legacy>>
not_tagging == <<reconciler, payload, source, process, deletion, legacy>>
not_deletion == <<reconciler, payload, source, process, tagging, legacy>>
not_legacy == <<reconciler, payload, source, process, tagging, deletion>>

(* ---- Python values ---- *)
None == [type |-> "NoneType", v |-> 0]
\* linkwarden_api.py:10, an object() distinct from every other value
LINK_EXISTS_GLOBALLY == [type |-> "object", v |-> 0]
PyStr(s) == [type |-> "str", v |-> 0, s |-> s]
PyInt(n) == [type |-> "int", v |-> n]

\* truth value of a Python value, as `elif link_id:` tests it (main.py:81)
Truthy(x) ==
    CASE x.type = "int" -> x.v # 0
      [] x.type = "NoneType" -> FALSE
      [] OTHER -> TRUE

(* ---- the Retry-After header and int() ---- *)
HeaderChars == {"3", "-", "x"}
Digits == {"0", "1", "2", "3", "4", "5", "6", "7", "8", "9"}
DigitVal(c) ==
    CASE c = "0" -> 0 [] c = "1" -> 1 [] c = "2" -> 2 [] c = "3" -> 3
      [] c = "4" -> 4 [] c = "5" -> 5 [] c = "6" -> 6 [] c = "7" -> 7
      [] c = "8" -> 8 [] c = "9" -> 9

\* header values: a string of at most MaxHeaderLen characters
HeaderStrings == UNION {[1..n -> HeaderChars] : n \in 0..MaxHeaderLen}
\* a header is absent ({}) or present with a string value ({s})
Headers == {{}} \cup {{s} : s \in HeaderStrings}

RECURSIVE DigitsValue(_)
DigitsValue(s) ==
    IF Len(s) = 0 THEN 0
    ELSE 10 * DigitsValue(SubSeq(s, 1, Len(s) - 1)) + DigitVal(s[Len(s)])

AllDigits(s) == Len(s) > 0 /\ \A i \in 1..Len(s) : s[i] \in Digits

\* int(str): an optional sign followed by at least one digit, else ValueError
IntParses(s) ==
    IF Len(s) > 0 /\ s[1] \in {"-", "+"} THEN AllDigits(Tail(s)) ELSE AllDigits(s)
IntValue(s) ==
    IF s[1] = "-" THEN 0 - DigitsValue(Tail(s))
    ELSE IF s[1] = "+" THEN DigitsValue(Tail(s))
    ELSE DigitsValue(s)

(* ---- HTTP responses of the create-link endpoint ---- *)
\* status 0: requests.post raised a RequestException that carries no response
\* json: kind of the JSON value under the key "response" of the body
Resp(status, json, text, has_id, id, coll, ra) ==
    [status |-> status, json |-> json, text |-> text, has_id |-> has_id,
     id |-> id, collectionId |-> coll, retry_after |-> ra]
NoResponse == Resp(0, "none", "", FALSE, 0, 0, {})

(* ---- what a call of upload_link gives its caller ---- *)
Return(v, w) == [exc |-> "none", value |-> v, response |-> NoResponse, warning |-> w]
Raise(e, r) == [exc |-> e, value |-> None, response |-> r, warning |-> FALSE]

\* upload_link without the 409 test of lines 169-174 (as in src/starwarden.py:189-239)
upload_link_NoConflictTest(cid, r) ==
    IF r.status = 0 THEN Return(None, FALSE)
    ELSE IF r.status >= 400 THEN Return(None, FALSE)
    ELSE IF r.json = "list" THEN Raise("AttributeError", NoResponse)
    ELSE IF r.json = "dict" /\ r.has_id
         THEN Return(PyInt(r.id), r.collectionId # cid)
    ELSE Return(None, FALSE)
\* linkwarden_api.py:162-202, from the response of requests.post on
upload_link(cid, r) ==
    IF r.status = 0 THEN Return(None, FALSE)
    ELSE IF r.status = 409 /\ r.json = "list" THEN Raise("AttributeError", NoResponse)
    ELSE IF r.status = 409 /\ r.json = "str" /\ r.text = "Link already exists"
         THEN Return(LINK_EXISTS_GLOBALLY, FALSE)
    ELSE IF r.status >= 400 THEN Return(None, FALSE)
    ELSE IF r.json = "list" THEN Raise("AttributeError", NoResponse)
    ELSE IF r.json = "dict" /\ r.has_id
         THEN Return(PyInt(r.id), r.collectionId # cid)
    ELSE Return(None, FALSE)

(* ---- the destination ---- *)
Link(id, url, coll) == [id |-> id, url |-> url, collectionId |-> coll]
ExistsGlobally(u) == \E k \in 1..Len(links) : links[k].url = u

ErrorResponses ==
    {NoResponse,
     Resp(500, "dict", "", FALSE, 0, 0, {}),
     Resp(409, "str", "Conflict", FALSE, 0, 0, {}),
     Resp(409, "list", "", FALSE, 0, 0, {}),
     Resp(200, "list", "", FALSE, 0, 0, {}),
     Resp(200, "dict", "", FALSE, 0, 0, {})}
    \cup {Resp(429, "dict", "", FALSE, 0, 0, h) : h \in Headers}

\* answers of POST /api/v1/links for url u (linkwarden_api.py:163-168)
CreateLinkResponses(u) ==
    ErrorResponses \cup
    (IF ExistsGlobally(u)
     THEN {Resp(409, "str", "Link already exists", FALSE, 0, 0, {})}
     ELSE {Resp(200, "dict", "", TRUE, next_id, c, {}) :
              c \in {collection_id, other_collection_id}})

Created(r) == r.status = 200 /\ r.has_id
LinksAfter(r, u) ==
    IF Created(r) THEN Append(links, Link(r.id, u, r.collectionId)) ELSE links
NextIdAfter(r) == IF Created(r) THEN next_id + 1 ELSE next_id

Min(a, b) == IF a <= b THEN a ELSE b

\* answer of GET /api/v1/search for the collection and a cursor
\* (linkwarden_api.py:27-40): the next PageSize links after the cursor
Visible(cid, cur) ==
    SelectSeq(links, LAMBDA l : l.collectionId = cid /\ \A c \in cur : l.id > c)
ListPage(cid, cur) ==
    SubSeq(Visible(cid, cur), 1, Min(PageSize, Len(Visible(cid, cur))))
ListNextCursor(cid, cur) ==
    LET page == ListPage(cid, cur)
    IN IF Len(page) = PageSize THEN {page[Len(page)].id} ELSE {}

(* ---- upload_link patched: it returns or raises what the caller of the ---- *)
(* ---- patch chose (tests/test_starwarden_app.py:84, 206)               ---- *)
RateLimitResponses == {Resp(429, "dict", "", FALSE, 0, 0, h) : h \in Headers}
SideEffects ==
    {Return(PyInt(n), FALSE) : n \in {0, 1}}
    \cup {Return(LINK_EXISTS_GLOBALLY, FALSE), Return(None, FALSE)}
    \cup {Raise("RequestException", r) :
             r \in {NoResponse, Resp(500, "dict", "", FALSE, 0, 0, {})}
                   \cup RateLimitResponses}
    \cup {Raise("Exception", NoResponse)}

(* ---- handle_rate_limit ---- *)
\* the retry_after argument: None, an int, or the str value of a header
RA_None == [type |-> "NoneType", v |-> 0, s |-> <<>>]
RA_Int(n) == [type |-> "int", v |-> n, s |-> <<>>]
RA_Str(s) == [type |-> "str", v |-> 0, s |-> s]
\* headers.get("Retry-After", default)
HeaderGet(h, default) == IF h = {} THEN default ELSE RA_Str(CHOOSE s \in h : TRUE)

\* github_api.py:38-44: the exception it raises ("none" if none) and the
\* durations it slept for
handle_rate_limit(e_headers, retry_after) ==
    LET ra == IF retry_after.type = "NoneType"
              THEN HeaderGet(e_headers, RA_Int(HandlerDefaultRetryAfter))
              ELSE retry_after
        parses == ra.type = "int" \/ IntParses(ra.s)
        n == IF ra.type = "int" THEN ra.v ELSE IntValue(ra.s)
    IN IF ~parses THEN [raised |-> "ValueError", slept |-> <<>>]
       ELSE IF n < 0 THEN [raised |-> "ValueError", slept |-> <<>>]
       ELSE [raised |-> "none", slept |-> <<n>>]

(* ---- get_existing_links: the for loop over one page ---- *)
\* the id of the link yielded in place of its url
link_url_IsId(link) == link.id
\* linkwarden_api.py:46
link_url(link) == link.url

\* every link taken for a duplicate
IsDuplicate_Always(link, seen) == TRUE
\* linkwarden_api.py:49
IsDuplicate(link, seen) == link_url(link) \in seen

\* linkwarden_api.py:45-56, st = [seen, dups, out]
RECURSIVE ProcessLinks(_, _)
ProcessLinks(page, st) ==
    IF Len(page) = 0 THEN st
    ELSE LET link == Head(page)
             st1 == IF IsDuplicate(link, st.seen)
                    THEN [st EXCEPT !.dups = Append(@, link.id)]
                    ELSE [st EXCEPT !.seen = @ \cup {link_url(link)}]
         IN ProcessLinks(Tail(page),
                         [st1 EXCEPT !.out = Append(@, link_url(link))])

Range(f) == {f[k] : k \in DOMAIN f}

(* ---- initial states ---- *)
URLs == 1..MaxRepos
Repo(i) == [html_url |-> i]
\* the URLs of the n repos get_starred_repos yields: n different ones, or,
\* when a repo is starred while the pages are fetched and shifts the page
\* boundary by one, the last one of a page once more
SourceUrls(n) ==
    {[i \in 1..n |-> i]} \cup
    (IF n >= 2 THEN {[i \in 1..n |-> IF i = n THEN n - 1 ELSE i]} ELSE {})
NoSummary == [created |-> 0, failed |-> 0, skipped |-> 0]

\* state of one invocation of run_update before its first statement
RunStart ==
    /\ pc = "listing"
    /\ cursor = {}
    /\ seen_urls = {}
    /\ duplicate_link_ids = <<>>
    /\ yielded = <<>>
    /\ requested = <<>>
    /\ returned = <<>>
    /\ list_error = FALSE
    /\ notifications = <<>>
    /\ existing_links = {}
    /\ idx = 0
    /\ retry_count = 0
    /\ successful_uploads = 0
    /\ failed_uploads = 0
    /\ skipped_uploads = 0
    /\ progress = 0
    /\ calls = 0
    /\ response = NoResponse
    /\ outcome = Return(None, FALSE)
    /\ sleeps = <<>>
    /\ counted = "none"
    /\ exc = "none"

\* upload_link is not being called on its own
NoPayload == description = None /\ link_data = {}

\* get_starred_repos is not being run on its own
NoError ==
    [cls |-> "none", status |-> 0, rate_limit_message |-> FALSE,
     has_headers |-> FALSE, headers |-> {}]
NoSource ==
    /\ totalCount = 0
    /\ page_num = 0
    /\ source_pc = "done"
    /\ source_yielded = <<>>
    /\ page_requests = <<>>
    /\ source_sleeps = <<>>
    /\ error = NoError
    /\ source_exc = "none"

\* run_update is looked at without the process around it
NoProcess ==
    /\ environ = {}
    /\ args_id = {}
    /\ main_pc = "run_update"
    /\ flavor = 0
    /\ chosen = {collection_id}
    /\ issued = <<>>
    /\ failure = "none"
    /\ item_failures = FALSE
    /\ exit_code = {}

\* config.py:31-36, main.py:28: the options build_tags reads
Config(t, g, s, l, u, custom) ==
    [opt_tag |-> t, opt_tag_github |-> g, opt_tag_githubStars |-> s,
     opt_tag_language |-> l, opt_tag_username |-> u, opt_tag_custom |-> custom,
     github_username |-> <<"u", "s", "e", "r">>]
\* build_tags is not being called on its own
NoTagging ==
    /\ config_data = Config(FALSE, FALSE, FALSE, FALSE, FALSE, <<>>)
    /\ language = None
    /\ tags = {}

\* main.py:39-41: run_update does not ask for the deletion of duplicates
NoDeletion ==
    /\ delete_duplicate = FALSE
    /\ to_delete = <<>>
    /\ delete_pc = "ended"
    /\ batch_i = 0
    /\ batches = <<>>
    /\ total_deleted = 0

\* main.py:39-41: run_update lists with linkwarden_api.get_existing_links,
\* the page-based listing is not called
NoLegacy ==
    /\ legacy_page = 1
    /\ seen_links = {}
    /\ legacy_pc = "ended"
    /\ legacy_yielded = <<>>
    /\ page_log = <<>>

Init ==
    /\ uploader \in {"upload_link", "side_effect"}
    /\ \E n \in 0..MaxRepos : \E us \in SourceUrls(n) :
          repos = [i \in 1..n |-> Repo(us[i])]
    /\ \E first \in {0, 1}, n \in 0..MaxInitLinks :
          \E us \in [1..n -> URLs], cs \in [1..n -> {collection_id, other_collection_id}] :
             /\ links = [k \in 1..n |-> Link(first + k - 1, us[k], cs[k])]
             /\ next_id = first + n
             /\ first_id = first + n
    /\ run = 1
    /\ prev = NoSummary
    /\ RunStart
    /\ NoPayload
    /\ NoSource
    /\ NoProcess
    /\ NoTagging
    /\ NoDeletion
    /\ NoLegacy

(* ---- get_existing_links, consumed by set(...) at main.py:39-41 ---- *)
destination == <<links, next_id>>
listing == <<cursor, seen_urls, duplicate_link_ids, yielded, requested,
             returned, list_error>>
counters == <<successful_uploads, failed_uploads, skipped_uploads, progress>>
item == <<retry_count, calls, response, outcome, sleeps, counted>>
setting == <<uploader, repos, run, prev, first_id, payload, source, process,
             tagging, deletion, legacy>>
fixed == <<setting, notifications>>

\* the loop left after the first page
LastPage_Always(next_cursor) == TRUE
\* linkwarden_api.py:58
LastPage(next_cursor) == next_cursor = {}

\* linkwarden_api.py:24-63: one request that succeeds
FetchLinks ==
    /\ pc = "listing"
    /\ LET page == ListPage(collection_id, cursor)
           next_cursor == ListNextCursor(collection_id, cursor)
           st == ProcessLinks(page, [seen |-> seen_urls,
                                     dups |-> duplicate_link_ids,
                                     out |-> yielded])
       IN /\ seen_urls' = st.seen
          /\ duplicate_link_ids' = st.dups
          /\ yielded' = st.out
          /\ requested' = Append(requested, cursor)
          /\ returned' = returned \o page
          /\ list_error' = list_error
          /\ IF LastPage(next_cursor)
             THEN /\ cursor' = cursor
                  /\ existing_links' = Range(st.out)
                  /\ pc' = "loop"
             ELSE /\ cursor' = next_cursor
                  /\ existing_links' = existing_links
                  /\ pc' = "listing"
    /\ UNCHANGED <<fixed, destination, idx, counters, item, exc>>

\* the RequestException not caught
FetchLinksError_Raises ==
    /\ pc = "listing"
    /\ requested' = Append(requested, cursor)
    /\ list_error' = TRUE
    /\ exc' = "RequestException"
    /\ pc' = "raised"
    /\ UNCHANGED <<fixed, destination, cursor, seen_urls, duplicate_link_ids,
                   yielded, returned, existing_links, idx, counters, item>>
\* linkwarden_api.py:65-70: the request raises a RequestException
FetchLinksError ==
    /\ pc = "listing"
    /\ requested' = Append(requested, cursor)
    /\ list_error' = TRUE
    /\ existing_links' = Range(yielded)
    /\ pc' = "loop"
    /\ UNCHANGED <<fixed, destination, cursor, seen_urls, duplicate_link_ids,
                   yielded, returned, idx, counters, item, exc>>

(* ---- run_update: the for loop ---- *)
\* the membership test left out
InSnapshot_Never(repo) == FALSE
\* main.py:61
InSnapshot(repo) == repo.html_url \in existing_links

\* the counter `which` is incremented and the progress bar advanced
Count(which) ==
    /\ successful_uploads' = successful_uploads + (IF which = "created" THEN 1 ELSE 0)
    /\ failed_uploads' = failed_uploads + (IF which = "failed" THEN 1 ELSE 0)
    /\ skipped_uploads' = skipped_uploads + (IF which = "skipped" THEN 1 ELSE 0)
    /\ progress' = progress + 1
    /\ counted' = which

\* what is reset when the generator hands over the next repo
NewItem ==
    /\ idx' = idx + 1
    /\ retry_count' = 0
    /\ calls' = 0
    /\ response' = NoResponse
    /\ outcome' = Return(None, FALSE)
    /\ sleeps' = <<>>

\* main.py:60-65
SkipExisting ==
    /\ pc = "loop"
    /\ idx < Len(repos)
    /\ InSnapshot(repos[idx + 1])
    /\ NewItem
    /\ Count("skipped")
    /\ UNCHANGED <<fixed, destination, listing, existing_links, pc, exc>>

\* the next repo taken while the upload of the current one is under way
StartUpload_BeforeResolved ==
    /\ pc \in {"loop", "uploading"}
    /\ idx < Len(repos)
    /\ ~InSnapshot(repos[idx + 1])
    /\ NewItem
    /\ counted' = "none"
    /\ pc' = "uploading"
    /\ UNCHANGED <<fixed, destination, listing, existing_links, counters, exc>>
\* main.py:60-61, 67-71
StartUpload ==
    /\ pc = "loop"
    /\ idx < Len(repos)
    /\ ~InSnapshot(repos[idx + 1])
    /\ NewItem
    /\ counted' = "none"
    /\ pc' = "uploading"
    /\ UNCHANGED <<fixed, destination, listing, existing_links, counters, exc>>

\* main.py:74-76: the results a call of upload_link can have in this state
CallResults ==
    LET u == repos[idx].html_url
    IN IF uploader = "upload_link"
       THEN {[out |-> upload_link(collection_id, r), resp |-> r,
              links |-> LinksAfter(r, u), next_id |-> NextIdAfter(r)] :
                r \in CreateLinkResponses(u)}
       ELSE {[out |-> o, resp |-> NoResponse,
              links |-> links, next_id |-> next_id] : o \in SideEffects}

Called(c) ==
    /\ calls' = calls + 1
    /\ response' = c.resp
    /\ outcome' = c.out
    /\ links' = c.links
    /\ next_id' = c.next_id

\* the truth test made before the identity test
CounterFor_TruthFirst(link_id) ==
    IF Truthy(link_id) THEN "created"
    ELSE IF link_id = LINK_EXISTS_GLOBALLY THEN "skipped"
    ELSE "failed"
\* the identity test left out (as in src/starwarden.py, `if link_id:`)
CounterFor_NoIdentityTest(link_id) ==
    IF Truthy(link_id) THEN "created" ELSE "failed"
\* main.py:78-86: the counter a returned link_id increments
CounterFor(link_id) ==
    IF link_id = LINK_EXISTS_GLOBALLY THEN "skipped"
    ELSE IF Truthy(link_id) THEN "created"
    ELSE "failed"

\* the status of the response not looked at
IsRateLimit_AnyResponse(o) ==
    o.exc = "RequestException" /\ o.response # NoResponse
\* main.py:89
IsRateLimit(o) ==
    o.exc = "RequestException" /\ o.response # NoResponse /\ o.response.status = 429

\* main.py:90-91
Backoff(o) ==
    handle_rate_limit({}, HeaderGet(o.response.retry_after, RA_Int(DefaultRetryAfter)))

\* the URL of a created link added to existing_links
UploadReturns_RefreshesSnapshot ==
    /\ pc = "uploading"
    /\ \E c \in CallResults :
          /\ c.out.exc = "none"
          /\ Called(c)
          /\ Count(CounterFor(c.out.value))
          /\ existing_links' =
                IF CounterFor(c.out.value) = "created"
                THEN existing_links \cup {repos[idx].html_url}
                ELSE existing_links
    /\ pc' = "loop"
    /\ UNCHANGED <<fixed, listing, idx, retry_count, sleeps, exc>>
\* main.py:74-87: upload_link returns
UploadReturns ==
    /\ pc = "uploading"
    /\ \E c \in CallResults :
          /\ c.out.exc = "none"
          /\ Called(c)
          /\ Count(CounterFor(c.out.value))
    /\ pc' = "loop"
    /\ UNCHANGED <<fixed, listing, existing_links, idx, retry_count, sleeps, exc>>

\* the else clause of the while loop left out
UploadRateLimited_NoElse ==
    /\ pc = "uploading"
    /\ \E c \in CallResults :
          /\ IsRateLimit(c.out)
          /\ Backoff(c.out).raised = "none"
          /\ Called(c)
          /\ sleeps' = sleeps \o Backoff(c.out).slept
    /\ retry_count' = retry_count + 1
    /\ IF retry_count + 1 < max_retries
       THEN UNCHANGED <<counters, counted, pc>>
       ELSE /\ UNCHANGED <<successful_uploads, failed_uploads, skipped_uploads>>
            /\ progress' = progress + 1
            /\ counted' = "none"
            /\ pc' = "loop"
    /\ UNCHANGED <<fixed, listing, existing_links, idx, exc>>
\* the loop test written retry_count <= max_retries
UploadRateLimited_OffByOne ==
    /\ pc = "uploading"
    /\ \E c \in CallResults :
          /\ IsRateLimit(c.out)
          /\ Backoff(c.out).raised = "none"
          /\ Called(c)
          /\ sleeps' = sleeps \o Backoff(c.out).slept
    /\ retry_count' = retry_count + 1
    /\ IF retry_count + 1 <= max_retries
       THEN UNCHANGED <<counters, counted, pc>>
       ELSE Count("failed") /\ pc' = "loop"
    /\ UNCHANGED <<fixed, listing, existing_links, idx, exc>>
\* failed_uploads incremented in the 429 branch of every attempt
UploadRateLimited_CountEach ==
    /\ pc = "uploading"
    /\ \E c \in CallResults :
          /\ IsRateLimit(c.out)
          /\ Backoff(c.out).raised = "none"
          /\ Called(c)
          /\ sleeps' = sleeps \o Backoff(c.out).slept
    /\ retry_count' = retry_count + 1
    /\ successful_uploads' = successful_uploads
    /\ skipped_uploads' = skipped_uploads
    /\ failed_uploads' = failed_uploads + 1
    /\ IF retry_count + 1 < max_retries
       THEN UNCHANGED <<progress, counted, pc>>
       ELSE progress' = progress + 1 /\ counted' = "failed" /\ pc' = "loop"
    /\ UNCHANGED <<fixed, listing, existing_links, idx, exc>>
\* no backoff after the call that uses up the retries
UploadRateLimited_NoLastBackoff ==
    /\ pc = "uploading"
    /\ \E c \in CallResults :
          /\ IsRateLimit(c.out)
          /\ Backoff(c.out).raised = "none"
          /\ Called(c)
          /\ sleeps' = IF retry_count + 1 < max_retries
                       THEN sleeps \o Backoff(c.out).slept
                       ELSE sleeps
    /\ retry_count' = retry_count + 1
    /\ IF retry_count + 1 < max_retries
       THEN UNCHANGED <<counters, counted, pc>>
       ELSE Count("failed") /\ pc' = "loop"
    /\ UNCHANGED <<fixed, listing, existing_links, idx, exc>>
\* main.py:88-92, and 71, 101-103 when the budget is used up
UploadRateLimited ==
    /\ pc = "uploading"
    /\ \E c \in CallResults :
          /\ IsRateLimit(c.out)
          /\ Backoff(c.out).raised = "none"
          /\ Called(c)
          /\ sleeps' = sleeps \o Backoff(c.out).slept
    /\ retry_count' = retry_count + 1
    /\ IF retry_count + 1 < max_retries
       THEN UNCHANGED <<counters, counted, pc>>
       ELSE Count("failed") /\ pc' = "loop"
    /\ UNCHANGED <<fixed, listing, existing_links, idx, exc>>

\* main.py:88-91: handle_rate_limit raises inside the except clause
UploadBackoffRaises ==
    /\ pc = "uploading"
    /\ \E c \in CallResults :
          /\ IsRateLimit(c.out)
          /\ Backoff(c.out).raised # "none"
          /\ Called(c)
          /\ exc' = Backoff(c.out).raised
    /\ pc' = "raised"
    /\ UNCHANGED <<fixed, listing, existing_links, idx, retry_count, sleeps,
                   counters, counted>>

\* main.py:88-89, 93-96
UploadRequestError ==
    /\ pc = "uploading"
    /\ \E c \in CallResults :
          /\ c.out.exc = "RequestException"
          /\ ~IsRateLimit(c.out)
          /\ Called(c)
    /\ Count("failed")
    /\ pc' = "loop"
    /\ UNCHANGED <<fixed, listing, existing_links, idx, retry_count, sleeps, exc>>

\* main.py:97-100
UploadUnexpected ==
    /\ pc = "uploading"
    /\ \E c \in CallResults :
          /\ c.out.exc \notin {"none", "RequestException"}
          /\ Called(c)
    /\ Count("failed")
    /\ pc' = "loop"
    /\ UNCHANGED <<fixed, listing, existing_links, idx, retry_count, sleeps, exc>>

\* the counters as a summary
Summary ==
    [created |-> successful_uploads, failed |-> failed_uploads,
     skipped |-> skipped_uploads]
\* notify.py:8-27: nothing is sent without APPRISE_URLS, else apobj.notify
\* succeeds or fails, which is logged
Deliveries == {"skipped", "sent", "failed"}
Notification(d) ==
    [title |-> "Starwarden Status", message |-> Summary, delivery |-> d]

\* a notification that is not delivered ends run_update with an exception
Finish_DeliveryRaises ==
    /\ pc = "loop"
    /\ idx = Len(repos)
    /\ \E d \in Deliveries :
          /\ notifications' = Append(notifications, Notification(d))
          /\ pc' = IF d = "failed" THEN "raised" ELSE "done"
          /\ exc' = IF d = "failed" THEN "Exception" ELSE exc
    /\ UNCHANGED <<setting, destination, listing, existing_links, idx,
                   counters, item>>
\* main.py:107-120: the generator is exhausted, the summary is reported and
\* handed to notify.send_notification
Finish ==
    /\ pc = "loop"
    /\ idx = Len(repos)
    /\ \E d \in Deliveries :
          notifications' = Append(notifications, Notification(d))
    /\ pc' = "done"
    /\ UNCHANGED <<setting, destination, listing, existing_links, idx,
                   counters, item, exc>>

\* the program is started again on the same source; the destination is
\* as the preceding run left it
RunAgain ==
    /\ pc = "done"
    /\ run < MaxRuns
    /\ run' = run + 1
    /\ prev' = [created |-> successful_uploads, failed |-> failed_uploads,
                skipped |-> skipped_uploads]
    /\ pc' = "listing"
    /\ cursor' = {}
    /\ seen_urls' = {}
    /\ duplicate_link_ids' = <<>>
    /\ yielded' = <<>>
    /\ requested' = <<>>
    /\ returned' = <<>>
    /\ list_error' = FALSE
    /\ first_id' = next_id
    /\ notifications' = <<>>
    /\ existing_links' = {}
    /\ idx' = 0
    /\ retry_count' = 0
    /\ successful_uploads' = 0
    /\ failed_uploads' = 0
    /\ skipped_uploads' = 0
    /\ progress' = 0
    /\ calls' = 0
    /\ response' = NoResponse
    /\ outcome' = Return(None, FALSE)
    /\ sleeps' = <<>>
    /\ counted' = "none"
    /\ exc' = "none"
    /\ UNCHANGED <<uploader, repos, destination, payload, source, process,
                   tagging, deletion, legacy>>

Next ==
    \/ FetchLinks
    \/ FetchLinksError
    \/ SkipExisting
    \/ StartUpload
    \/ UploadReturns
    \/ UploadRateLimited
    \/ UploadBackoffRaises
    \/ UploadRequestError
    \/ UploadUnexpected
    \/ Finish
    \/ RunAgain

Spec == Init /\ [][Next]_vars

TypeOK ==
    /\ pc \in {"listing", "loop", "uploading", "done", "raised"}
    /\ idx \in 0..Len(repos)
    /\ retry_count \in 0..max_retries
    /\ counted \in {"none", "created", "failed", "skipped"}

(* ---- upload_link: the description of the request body ---- *)
\* a run_update that has not begun, while upload_link is called on its own
NoRun ==
    /\ uploader = "upload_link"
    /\ repos = <<>>
    /\ links = <<>>
    /\ next_id = 1
    /\ first_id = 1
    /\ run = 1
    /\ prev = NoSummary
    /\ RunStart

\* characters of the descriptions; "." is the character of the marker
Alphabet == <<"a", ".", "b", ".", ".", "c", ".">>
\* texts of n characters that differ at neighbouring positions
Text(n, k) == [i \in 1..n |-> Alphabet[((i + k) % Len(Alphabet)) + 1]]
Descriptions ==
    {None} \cup {PyStr(Text(n, k)) : n \in 0..MaxDescLen, k \in {0, 3}}

\* linkwarden_api.py:143, repo.description or ""
OrEmpty(d) == IF d.type = "NoneType" THEN <<>> ELSE d.s
Marker == <<".", ".", ".">>
\* the slice taken as long as the limit
Truncate_SliceAtLimit(d) ==
    IF Len(d) > DescriptionLimit
    THEN SubSeq(d, 1, DescriptionLimit) \o Marker
    ELSE d
\* linkwarden_api.py:144-145
Truncate(d) ==
    IF Len(d) > DescriptionLimit
    THEN SubSeq(d, 1, DescriptionKept) \o Marker
    ELSE d

InitPayload ==
    /\ NoRun
    /\ NoSource
    /\ NoProcess
    /\ NoTagging
    /\ NoDeletion
    /\ NoLegacy
    /\ description \in Descriptions
    /\ link_data = {}

\* linkwarden_api.py:143-151
BuildLinkData ==
    /\ link_data = {}
    /\ link_data' = {[description |-> Truncate(OrEmpty(description)),
                      collection |-> collection_id]}
    /\ UNCHANGED <<not_payload, description>>

NextPayload == BuildLinkData
SpecPayload == InitPayload /\ [][NextPayload]_vars

(* ---- get_starred_repos ---- *)
\* github_api.py:21, ceil(starred.totalCount / 30)
total_pages == (totalCount + PerPage - 1) \div PerPage
\* starred.get_page(p): the repos p * 30 + 1 .. (p + 1) * 30 of the
\* totalCount starred repos, which are numbered 1 .. totalCount
PageItems(p) ==
    [i \in 1..(Min((p + 1) * PerPage, totalCount) - p * PerPage) |->
        p * PerPage + i]

\* exceptions starred.get_page raises; rate_limit_message: "rate limit" is
\* in str(e).lower(); has_headers: e.headers is a dict and not None
GithubError(cls, status, msg, has, h) ==
    [cls |-> cls, status |-> status, rate_limit_message |-> msg,
     has_headers |-> has, headers |-> h]
ErrorHeaders == {<<TRUE, h>> : h \in Headers} \cup {<<FALSE, {}>>}
GithubErrors ==
    {GithubError("RateLimitExceededException", st, TRUE, hh[1], hh[2]) :
        st \in {403, 429}, hh \in ErrorHeaders}
    \cup {GithubError("GithubException", st, m, hh[1], hh[2]) :
             st \in {403, 429, 500}, m \in BOOLEAN, hh \in ErrorHeaders}

\* every GithubException with status 403 taken for a rate limit
IsRateLimitError_StatusOnly(e) ==
    \/ e.cls = "RateLimitExceededException"
    \/ e.status = 403
\* github_api.py:28, 30-31: the errors handle_rate_limit is called for
IsRateLimitError(e) ==
    \/ e.cls = "RateLimitExceededException"
    \/ e.status = 403 /\ e.rate_limit_message

\* github_api.py:29, 32: handle_rate_limit(e); e.headers.get raises
\* AttributeError when e.headers is None
SourceBackoff(e) ==
    IF e.has_headers THEN handle_rate_limit(e.headers, RA_None)
    ELSE [raised |-> "AttributeError", slept |-> <<>>]

InitSource ==
    /\ NoRun
    /\ NoPayload
    /\ NoProcess
    /\ NoTagging
    /\ NoDeletion
    /\ NoLegacy
    /\ totalCount \in 0..MaxStarred
    /\ page_num = 0
    /\ source_pc = IF total_pages = 0 THEN "done" ELSE "fetch"
    /\ source_yielded = <<>>
    /\ page_requests = <<>>
    /\ source_sleeps = <<>>
    /\ error = NoError
    /\ source_exc = "none"

\* get_page calls that raised so far
Faults == Len(page_requests) - page_num

\* the page after the next one taken
GetPage_SkipsPage ==
    /\ source_pc = "fetch"
    /\ page_requests' = Append(page_requests, page_num)
    /\ source_yielded' = source_yielded \o PageItems(page_num)
    /\ error' = NoError
    /\ page_num' = page_num + 2
    /\ source_pc' = IF page_num + 2 < total_pages THEN "fetch" ELSE "done"
    /\ UNCHANGED <<not_source, totalCount, source_sleeps, source_exc>>
\* github_api.py:23-27: the page is fetched and its repos are yielded
GetPage ==
    /\ source_pc = "fetch"
    /\ page_requests' = Append(page_requests, page_num)
    /\ source_yielded' = source_yielded \o PageItems(page_num)
    /\ error' = NoError
    /\ page_num' = page_num + 1
    /\ source_pc' = IF page_num + 1 < total_pages THEN "fetch" ELSE "done"
    /\ UNCHANGED <<not_source, totalCount, source_sleeps, source_exc>>

\* the next page taken after the backoff
GetPageRateLimited_NextPage ==
    /\ source_pc = "fetch"
    /\ Faults < MaxFaults
    /\ \E e \in GithubErrors :
          /\ IsRateLimitError(e)
          /\ SourceBackoff(e).raised = "none"
          /\ error' = e
          /\ source_sleeps' = source_sleeps \o SourceBackoff(e).slept
    /\ page_requests' = Append(page_requests, page_num)
    /\ page_num' = page_num + 1
    /\ source_pc' = IF page_num + 1 < total_pages THEN "fetch" ELSE "done"
    /\ UNCHANGED <<not_source, totalCount, source_yielded, source_exc>>
\* a page given up when it is rate-limited a second time
GetPageRateLimited_GivesUp ==
    /\ source_pc = "fetch"
    /\ Faults < MaxFaults
    /\ \E e \in GithubErrors :
          /\ IsRateLimitError(e)
          /\ SourceBackoff(e).raised = "none"
          /\ error' = e
          /\ source_sleeps' = source_sleeps \o SourceBackoff(e).slept
    /\ page_requests' = Append(page_requests, page_num)
    /\ source_pc' = IF error # NoError THEN "raised" ELSE "fetch"
    /\ UNCHANGED <<not_source, totalCount, page_num, source_yielded,
                   source_exc>>
\* github_api.py:24-32: get_page raises a rate-limit error, handle_rate_limit
\* sleeps and the while loop calls get_page again
GetPageRateLimited ==
    /\ source_pc = "fetch"
    /\ Faults < MaxFaults
    /\ \E e \in GithubErrors :
          /\ IsRateLimitError(e)
          /\ SourceBackoff(e).raised = "none"
          /\ error' = e
          /\ source_sleeps' = source_sleeps \o SourceBackoff(e).slept
    /\ page_requests' = Append(page_requests, page_num)
    /\ UNCHANGED <<not_source, totalCount, page_num, source_pc,
                   source_yielded, source_exc>>

\* github_api.py:28-32, 38-44: handle_rate_limit raises inside the except
\* clause and its exception leaves the generator
GetPageBackoffRaises ==
    /\ source_pc = "fetch"
    /\ \E e \in GithubErrors :
          /\ IsRateLimitError(e)
          /\ SourceBackoff(e).raised # "none"
          /\ error' = e
          /\ source_exc' = SourceBackoff(e).raised
    /\ page_requests' = Append(page_requests, page_num)
    /\ source_pc' = "raised"
    /\ UNCHANGED <<not_source, totalCount, page_num, source_yielded,
                   source_sleeps>>

\* github_api.py:30, 33-35: any other GithubException is logged and raised
GetPageError ==
    /\ source_pc = "fetch"
    /\ \E e \in GithubErrors :
          /\ ~IsRateLimitError(e)
          /\ error' = e
    /\ source_exc' = "GithubException"
    /\ page_requests' = Append(page_requests, page_num)
    /\ source_pc' = "raised"
    /\ UNCHANGED <<not_source, totalCount, page_num, source_yielded,
                   source_sleeps>>

NextSource ==
    \/ GetPage
    \/ GetPageRateLimited
    \/ GetPageBackoffRaises
    \/ GetPageError
SpecSource == InitSource /\ [][NextSource]_vars
\* the generator is consumed to its end (main.py:60) and every call of
\* get_page and of time.sleep returns; Faults < MaxFaults makes the rate
\* limits finitely many
SpecSourceLive == InitSource /\ [][NextSource]_vars /\ WF_vars(NextSource)

(* ---- the process: __main__ and main() ---- *)
\* config.py:41
Required == {"GITHUB_USERNAME", "LINKWARDEN_URL", "LINKWARDEN_TOKEN"}
EnvNames == Required \cup {"GITHUB_TOKEN"}

InitProcess ==
    /\ NoRun
    /\ NoPayload
    /\ NoSource
    /\ NoTagging
    /\ NoDeletion
    /\ NoLegacy
    /\ environ \in SUBSET EnvNames
    /\ args_id \in {{}, {collection_id}}
    /\ main_pc = "load_env"
    /\ flavor = 0
    /\ chosen = {}
    /\ issued = <<>>
    /\ failure = "none"
    /\ item_failures = FALSE
    /\ exit_code = {}

\* sys.exit(status), or the end of the script with status 0
Exit(status) == main_pc' = "exited" /\ exit_code' = {status}

\* main.py:166, config.py:24-45
LoadEnv ==
    /\ main_pc = "load_env"
    /\ IF Required \subseteq environ
       THEN /\ main_pc' = "main"
            /\ UNCHANGED <<failure, exit_code>>
       ELSE /\ failure' = "credentials"
            /\ Exit(1)
    /\ UNCHANGED <<not_process, environ, args_id, flavor, chosen, issued,
                   item_failures>>

\* main.py:124-132, 142, 157-162
Main ==
    /\ main_pc = "main"
    /\ IF args_id # {}
       THEN /\ chosen' = args_id
            /\ main_pc' = "run_update"
            /\ UNCHANGED <<flavor, exit_code>>
       ELSE /\ \E f \in 1..3 :
                  /\ flavor' = f
                  /\ CASE f = 1 -> main_pc' = "get_collections"
                                   /\ UNCHANGED exit_code
                       [] f = 2 -> main_pc' = "create_collection"
                                   /\ UNCHANGED exit_code
                       [] f = 3 -> Exit(0)
            /\ UNCHANGED chosen
    /\ UNCHANGED <<not_process, environ, args_id, issued, failure,
                   item_failures>>

\* the return after a failed selection left out
SelectCollection_NoReturn ==
    /\ main_pc = "get_collections"
    /\ issued' = Append(issued, "get_collections")
    /\ \/ /\ failure' = "linkwarden_request"
          /\ Exit(1)
          /\ UNCHANGED chosen
       \/ /\ failure' = "no_collection"
          /\ main_pc' = "run_update"
          /\ UNCHANGED <<chosen, exit_code>>
       \/ /\ \E id \in {collection_id, other_collection_id} : chosen' = {id}
          /\ main_pc' = "run_update"
          /\ UNCHANGED <<failure, exit_code>>
    /\ UNCHANGED <<not_process, environ, args_id, flavor, item_failures>>
\* main.py:133-140, linkwarden_api.py:93-107, tui.py:43-89, main.py:167-175:
\* get_collections raises on a request error; select_collection returns
\* None for an empty list and the id the user typed otherwise
SelectCollection ==
    /\ main_pc = "get_collections"
    /\ issued' = Append(issued, "get_collections")
    /\ \/ /\ failure' = "linkwarden_request"
          /\ Exit(1)
          /\ UNCHANGED chosen
       \/ /\ failure' = "no_collection"
          /\ Exit(0)
          /\ UNCHANGED chosen
       \/ /\ \E id \in {collection_id, other_collection_id} : chosen' = {id}
          /\ main_pc' = "run_update"
          /\ UNCHANGED <<failure, exit_code>>
    /\ UNCHANGED <<not_process, environ, args_id, flavor, item_failures>>

\* main.py:143-156, linkwarden_api.py:110-139: create_collection returns
\* None on a timeout or request error, else the created collection
CreateCollection ==
    /\ main_pc = "create_collection"
    /\ issued' = Append(issued, "create_collection")
    /\ \/ /\ failure' = "no_collection"
          /\ Exit(0)
          /\ UNCHANGED chosen
       \/ /\ \E id \in {collection_id, other_collection_id} : chosen' = {id}
          /\ main_pc' = "run_update"
          /\ UNCHANGED <<failure, exit_code>>
    /\ UNCHANGED <<not_process, environ, args_id, flavor, item_failures>>

\* main.py:39-41, linkwarden_api.py:65-70: the links are listed; a request
\* error, a 401 among them, ends the listing and run_update goes on
ListLinks ==
    /\ main_pc = "run_update"
    /\ issued' = Append(issued, "list_links")
    /\ \E ok \in BOOLEAN :
          failure' = IF ok THEN failure ELSE "linkwarden_auth"
    /\ main_pc' = "count"
    /\ UNCHANGED <<not_process, environ, args_id, flavor, chosen,
                   item_failures, exit_code>>

\* main.py:50, github_api.py:47-50, main.py:167-175: a GithubException of
\* get_total_starred_repos, bad credentials among them, ends the process
CountStarred ==
    /\ main_pc = "count"
    /\ issued' = Append(issued, "count_starred")
    /\ \/ /\ main_pc' = "loop"
          /\ UNCHANGED <<failure, exit_code>>
       \/ /\ failure' = "github_auth"
          /\ Exit(1)
    /\ UNCHANGED <<not_process, environ, args_id, flavor, chosen,
                   item_failures>>

\* n times the request "upload"
RECURSIVE Uploads(_)
Uploads(n) == IF n = 0 THEN <<>> ELSE Append(Uploads(n - 1), "upload")

\* main.py:58-120, 162: the loop over the starred repos with n uploads, then
\* the summary; the process ends with status 0 when main() returns
ProcessItems ==
    /\ main_pc = "loop"
    /\ \E n \in 0..MaxUploads, failed \in BOOLEAN :
          /\ failed => n > 0
          /\ issued' = Append(issued, "list_starred") \o Uploads(n)
          /\ item_failures' = failed
    /\ Exit(0)
    /\ UNCHANGED <<not_process, environ, args_id, flavor, chosen, failure>>

\* main.py:60-105, 167-175: an exception leaves run_update (get_starred_repos
\* or handle_rate_limit raised) and the process ends with status 1
ProcessItemsRaises ==
    /\ main_pc = "loop"
    /\ \E n \in 0..MaxUploads :
          issued' = Append(issued, "list_starred") \o Uploads(n)
    /\ failure' = "run_update_raised"
    /\ Exit(1)
    /\ UNCHANGED <<not_process, environ, args_id, flavor, chosen,
                   item_failures>>

NextProcess ==
    \/ LoadEnv
    \/ Main
    \/ SelectCollection
    \/ CreateCollection
    \/ ListLinks
    \/ CountStarred
    \/ ProcessItems
    \/ ProcessItemsRaises
SpecProcess == InitProcess /\ [][NextProcess]_vars

(* ---- build_tags ---- *)
\* characters of opt_tag_custom
CustomChars == {"a", ",", " "}
RECURSIVE CustomStrings(_)
CustomStrings(n) ==
    IF n = 0 THEN {<<>>}
    ELSE CustomStrings(n - 1) \cup
         {Append(s, c) : s \in {t \in CustomStrings(n - 1) : Len(t) = n - 1},
                         c \in CustomChars}

\* str.split(","): the segments between the commas, empty ones included
RECURSIVE Split(_)
Split(s) ==
    IF \A k \in DOMAIN s : s[k] # ","
    THEN <<s>>
    ELSE LET k == CHOOSE j \in DOMAIN s :
                     s[j] = "," /\ \A m \in 1..(j - 1) : s[m] # ","
         IN <<SubSeq(s, 1, k - 1)>> \o Split(SubSeq(s, k + 1, Len(s)))
\* str.strip(): the blanks at both ends removed
RECURSIVE Strip(_)
Strip(s) ==
    IF s = <<>> THEN s
    ELSE IF s[1] = " " THEN Strip(Tail(s))
    ELSE IF s[Len(s)] = " " THEN Strip(SubSeq(s, 1, Len(s) - 1))
    ELSE s

GitHubName == <<"G", "i", "t", "H", "u", "b">>
GitHubStarsName ==
    <<"G", "i", "t", "H", "u", "b", " ", "S", "t", "a", "r", "s">>
Tag(name) == [name |-> name]
\* main.py:25, `and repo.language`: None and "" are false
HasLanguage(l) == l.type = "str" /\ l.s # <<>>

\* main.py:30-32, the tags of the segments of opt_tag_custom
RECURSIVE CustomTags(_)
CustomTags(segments) ==
    IF segments = <<>> THEN <<>>
    ELSE (IF Len(Head(segments)) > 0
          THEN <<Tag(Strip(Head(segments)))>>
          ELSE <<>>) \o CustomTags(Tail(segments))

\* the test of opt_tag left out
build_tags_NoOptTagTest(cfg, l) ==
    (IF cfg.opt_tag_github THEN <<Tag(GitHubName)>> ELSE <<>>)
    \o (IF cfg.opt_tag_githubStars THEN <<Tag(GitHubStarsName)>> ELSE <<>>)
    \o (IF cfg.opt_tag_language /\ HasLanguage(l) THEN <<Tag(l.s)>> ELSE <<>>)
    \o (IF cfg.opt_tag_username THEN <<Tag(cfg.github_username)>> ELSE <<>>)
    \o (IF cfg.opt_tag_custom # <<>>
        THEN CustomTags(Split(cfg.opt_tag_custom))
        ELSE <<>>)
\* main.py:15-34
build_tags(cfg, l) ==
    IF ~cfg.opt_tag THEN <<>>
    ELSE (IF cfg.opt_tag_github THEN <<Tag(GitHubName)>> ELSE <<>>)
         \o (IF cfg.opt_tag_githubStars
             THEN <<Tag(GitHubStarsName)>>
             ELSE <<>>)
         \o (IF cfg.opt_tag_language /\ HasLanguage(l)
             THEN <<Tag(l.s)>>
             ELSE <<>>)
         \o (IF cfg.opt_tag_username
             THEN <<Tag(cfg.github_username)>>
             ELSE <<>>)
         \o (IF cfg.opt_tag_custom # <<>>
             THEN CustomTags(Split(cfg.opt_tag_custom))
             ELSE <<>>)

Languages == {None, PyStr(<<>>), PyStr(<<"Z", "i", "g">>)}
InitTags ==
    /\ NoRun
    /\ NoPayload
    /\ NoSource
    /\ NoProcess
    /\ NoDeletion
    /\ NoLegacy
    /\ \E t, g, s, l, u \in BOOLEAN :
          \E custom \in CustomStrings(MaxCustomLen) :
             config_data = Config(t, g, s, l, u, custom)
    /\ language \in Languages
    /\ tags = {}

\* main.py:69, tags = build_tags(config_data, repo)
BuildTags ==
    /\ tags = {}
    /\ tags' = {build_tags(config_data, language)}
    /\ UNCHANGED <<not_tagging, config_data, language>>

NextTags == BuildTags
SpecTags == InitTags /\ [][NextTags]_vars

(* ---- get_existing_links: the deletion of duplicates ---- *)
\* duplicates a page of the listing can add to duplicate_link_ids
DuplicatesOfPage == {0, 1, batch_size}

InitDelete ==
    /\ NoRun
    /\ NoPayload
    /\ NoSource
    /\ NoProcess
    /\ NoTagging
    /\ NoLegacy
    /\ delete_duplicate \in BOOLEAN
    /\ to_delete = <<>>
    /\ delete_pc = "listing"
    /\ batch_i = 0
    /\ batches = <<>>
    /\ total_deleted = 0

\* linkwarden_api.py:45-63: a page whose links add d ids to
\* duplicate_link_ids and that carries a nextCursor
ListDuplicates ==
    /\ delete_pc = "listing"
    /\ \E d \in DuplicatesOfPage :
          /\ Len(to_delete) + d <= MaxDuplicates
          /\ to_delete' =
                to_delete \o [k \in 1..d |-> Len(to_delete) + k]
    /\ UNCHANGED <<not_deletion, delete_duplicate, delete_pc, batch_i,
                   batches, total_deleted>>

\* linkwarden_api.py:58-60, 65-73: the loop ends, on the last page or on a
\* request error
EndListing ==
    /\ delete_pc = "listing"
    /\ delete_pc' = IF delete_duplicate /\ to_delete # <<>>
                    THEN "deleting"
                    ELSE "ended"
    /\ UNCHANGED <<not_deletion, delete_duplicate, to_delete, batch_i,
                   batches, total_deleted>>

\* linkwarden_api.py:205-253: delete_links returns the count the
\* destination reports, or None on a 401, a timeout or a request error
DeleteResults(batch) == {None, PyInt(Len(batch)), PyInt(0)}

\* the loop over the batches left after a batch that failed
SubmitBatch_StopsOnFailure ==
    /\ delete_pc = "deleting"
    /\ LET batch == SubSeq(to_delete, batch_i + 1,
                           Min(batch_i + batch_size, Len(to_delete)))
       IN \E r \in DeleteResults(batch) :
             /\ batches' = Append(batches, [ids |-> batch, result |-> r])
             /\ total_deleted' =
                   total_deleted + (IF r.type = "int" THEN r.v ELSE 0)
             /\ delete_pc' = IF batch_i + batch_size < Len(to_delete)
                                /\ r.type = "int"
                             THEN "deleting"
                             ELSE "ended"
    /\ batch_i' = batch_i + batch_size
    /\ UNCHANGED <<not_deletion, delete_duplicate, to_delete>>
\* linkwarden_api.py:79-87: one pass of the for loop over the batches
SubmitBatch ==
    /\ delete_pc = "deleting"
    /\ LET batch == SubSeq(to_delete, batch_i + 1,
                           Min(batch_i + batch_size, Len(to_delete)))
       IN \E r \in DeleteResults(batch) :
             /\ batches' = Append(batches, [ids |-> batch, result |-> r])
             /\ total_deleted' =
                   total_deleted + (IF r.type = "int" THEN r.v ELSE 0)
    /\ batch_i' = batch_i + batch_size
    /\ delete_pc' = IF batch_i + batch_size < Len(to_delete)
                    THEN "deleting"
                    ELSE "ended"
    /\ UNCHANGED <<not_deletion, delete_duplicate, to_delete>>

NextDelete ==
    \/ ListDuplicates
    \/ EndListing
    \/ SubmitBatch
SpecDelete == InitDelete /\ [][NextDelete]_vars

(* ---- get_existing_links and a destination that answers anything ---- *)
\* the links of the collection: two links with the same URL
AnyLinks == <<Link(1, 1, collection_id), Link(2, 1, collection_id)>>
\* data.data.links of an answer: no link or one of the links, whatever the
\* cursor asked for
AnyPages == {<<>>} \cup {<<AnyLinks[k]>> : k \in DOMAIN AnyLinks}
\* data.data.nextCursor of an answer: missing, or the id of a link
AnyCursors == {{}} \cup {{AnyLinks[k].id} : k \in DOMAIN AnyLinks}

InitCursor ==
    /\ uploader = "upload_link"
    /\ repos = <<>>
    /\ links = AnyLinks
    /\ next_id = Len(AnyLinks) + 1
    /\ first_id = Len(AnyLinks) + 1
    /\ run = 1
    /\ prev = NoSummary
    /\ RunStart
    /\ NoPayload
    /\ NoSource
    /\ NoProcess
    /\ NoTagging
    /\ NoDeletion
    /\ NoLegacy

\* linkwarden_api.py:24-63: one request that succeeds, answered with any
\* page and any nextCursor
FetchAnyLinks ==
    /\ pc = "listing"
    /\ Len(requested) < MaxRequests
    /\ \E links_ \in AnyPages, next_cursor \in AnyCursors :
          LET st == ProcessLinks(links_, [seen |-> seen_urls,
                                         dups |-> duplicate_link_ids,
                                         out |-> yielded])
          IN /\ seen_urls' = st.seen
             /\ duplicate_link_ids' = st.dups
             /\ yielded' = st.out
             /\ requested' = Append(requested, cursor)
             /\ returned' = returned \o links_
             /\ list_error' = list_error
             /\ IF LastPage(next_cursor)
                THEN /\ cursor' = cursor
                     /\ existing_links' = Range(st.out)
                     /\ pc' = "loop"
                ELSE /\ cursor' = next_cursor
                     /\ existing_links' = existing_links
                     /\ pc' = "listing"
    /\ UNCHANGED <<fixed, destination, idx, counters, item, exc>>

NextListing ==
    \/ FetchAnyLinks
    \/ FetchLinksError
SpecCursor == InitCursor /\ [][NextListing]_vars

(* ---- src/starwarden.py: LinkwardenManager.get_existing_links ---- *)
\* the URLs of the links the destination can return
LegacyUrls == 1..MaxLegacyUrls
\* data.get("response", []) of one answer: any list of links of the
\* destination, whatever the page asked for
RECURSIVE LegacyLists(_)
LegacyLists(n) ==
    IF n = 0 THEN {<<>>}
    ELSE LegacyLists(n - 1)
         \cup {Append(l, u) : l \in LegacyLists(n - 1), u \in LegacyUrls}
LegacyPages == LegacyLists(MaxLegacyPage)

\* starwarden.py:126-128
new_links(ls) == SelectSeq(ls, LAMBDA u : u \notin seen_links)

InitLegacy ==
    /\ NoRun
    /\ NoPayload
    /\ NoSource
    /\ NoProcess
    /\ NoTagging
    /\ NoDeletion
    /\ legacy_page = 1
    /\ seen_links = {}
    /\ legacy_pc = "listing"
    /\ legacy_yielded = <<>>
    /\ page_log = <<>>

\* the loop left on an empty page only, every URL of a page yielded (as
\* in src/src/starwarden.py:104-106)
LegacyFetch_StopsOnEmptyPage ==
    /\ legacy_pc = "listing"
    /\ Len(page_log) <= MaxLegacyUrls + 1
    /\ \E links_ \in LegacyPages :
          /\ page_log' = Append(page_log,
                                [page |-> legacy_page, new |-> Len(new_links(links_))])
          /\ IF links_ = <<>>
             THEN /\ legacy_pc' = "ended"
                  /\ UNCHANGED <<legacy_page, seen_links, legacy_yielded>>
             ELSE /\ seen_links' = seen_links \cup Range(links_)
                  /\ legacy_yielded' = legacy_yielded \o links_
                  /\ legacy_page' = legacy_page + 1
                  /\ legacy_pc' = "listing"
    /\ UNCHANGED not_legacy
\* starwarden.py:111-137: one request that succeeds
LegacyFetch ==
    /\ legacy_pc = "listing"
    /\ \E links_ \in LegacyPages :
          /\ page_log' = Append(page_log,
                                [page |-> legacy_page, new |-> Len(new_links(links_))])
          /\ IF new_links(links_) = <<>>
             THEN /\ legacy_pc' = "ended"
                  /\ UNCHANGED <<legacy_page, seen_links, legacy_yielded>>
             ELSE /\ seen_links' = seen_links \cup Range(new_links(links_))
                  /\ legacy_yielded' = legacy_yielded \o new_links(links_)
                  /\ legacy_page' = legacy_page + 1
                  /\ legacy_pc' = "listing"
    /\ UNCHANGED not_legacy

\* starwarden.py:138-143: the request raises a RequestException
LegacyFetchError ==
    /\ legacy_pc = "listing"
    /\ page_log' = Append(page_log, [page |-> legacy_page, new |-> 0])
    /\ legacy_pc' = "ended"
    /\ UNCHANGED <<not_legacy, legacy_page, seen_links, legacy_yielded>>

NextLegacy ==
    \/ LegacyFetch
    \/ LegacyFetchError
\* the while loop goes on until it is left
SpecLegacy == InitLegacy /\ [][NextLegacy]_vars /\ WF_vars(NextLegacy)

(* ---- run_update on the source [A, B, C] ---- *)
\* the URLs of the three starred repos
A == 1
B == 2
C == 3
\* the collection holds a link for A; another collection of the account
\* may hold one for C
InitScenario ==
    /\ uploader \in {"upload_link", "side_effect"}
    /\ repos = <<Repo(A), Repo(B), Repo(C)>>
    /\ \E first \in {0, 1} :
          /\ \/ links = <<Link(first, A, collection_id)>>
             \/ links = <<Link(first, A, collection_id),
                          Link(first + 1, C, other_collection_id)>>
          /\ next_id = first + Len(links)
          /\ first_id = first + Len(links)
    /\ run = 1
    /\ prev = NoSummary
    /\ RunStart
    /\ NoPayload
    /\ NoSource
    /\ NoProcess
    /\ NoTagging
    /\ NoDeletion
    /\ NoLegacy
SpecScenario == InitScenario /\ [][Next]_vars

(* ======================= the claims ======================= *)
Total == successful_uploads + failed_uploads + skipped_uploads
\* repos whose iteration of the for loop has ended
Finished == IF pc \in {"uploading", "raised"} THEN idx - 1 ELSE idx
ComposedRun == uploader = "upload_link"

C2_SecondRunAllSkipped ==
    (ComposedRun /\ run = 2 /\ pc = "done") =>
        (successful_uploads = 0 /\ skipped_uploads = Len(repos))
\* C2 as amended: when the preceding run ended with failed = 0, a later run
\* on the same source creates nothing, and it counts every repo as skipped
\* when it ends with failed = 0 itself.
C2_SecondRunCreatesNothing ==
    (ComposedRun /\ run >= 2 /\ prev.failed = 0) =>
        /\ successful_uploads = 0
        /\ (pc = "done" /\ failed_uploads = 0) => skipped_uploads = Len(repos)
C2_Witness ==
    /\ ComposedRun
    /\ run = 2
    /\ pc = "done"
    /\ prev.failed = 0
    /\ prev.created >= 1
    /\ Len(repos) >= 1
    /\ skipped_uploads = Len(repos)

\* C3: a repo whose html_url is in existing_links is counted as skipped and
\* upload_link is never called for it; upload_link is called only for repos
\* whose URL is not in the set.
C3_SnapshotMemberSkipped ==
    (idx >= 1 /\ pc # "listing") =>
        /\ repos[idx].html_url \in existing_links =>
              (counted = "skipped" /\ calls = 0 /\ pc # "uploading")
        /\ (calls > 0 \/ pc = "uploading") =>
              repos[idx].html_url \notin existing_links
C3_Witness ==
    /\ idx >= 1
    /\ pc = "loop"
    /\ repos[idx].html_url \in existing_links
    /\ counted = "skipped"

\* C4 as claimed: when the destination answers the first create-link request
\* for a repo with 429, the repo is not counted as failed on that attempt.
C4_RateLimitRetried ==
    (ComposedRun /\ calls = 1 /\ response.status = 429) => counted # "failed"

\* C5: upload_link is called at most 3 times for a repo.
C5_AtMostThreeCalls == calls <= 3
C5_Witness == calls = 3 /\ pc = "loop" /\ counted = "failed"

\* upload_link raised a RequestException whose response has status 429
Raised429(o) == o.exc = "RequestException" /\ o.response.status = 429

\* C6: the step in which the third 429 of a repo uses up the budget increments
\* failed_uploads by one, leaves the other counters alone and goes on to the
\* next repo; the 429s before it change no counter.
C6_ExhaustionCountedOnce ==
    /\ [](retry_count = 3 =>
             (calls = 3 /\ Len(sleeps) = 3 /\ counted = "failed" /\ pc \in {"loop", "done"}))
    /\ [][(pc = "uploading" /\ calls' = calls + 1 /\ Raised429(outcome') /\ pc' # "raised") =>
            /\ retry_count' = retry_count + 1
            /\ successful_uploads' = successful_uploads
            /\ skipped_uploads' = skipped_uploads
            /\ IF retry_count' = 3
               THEN failed_uploads' = failed_uploads + 1 /\ pc' = "loop"
               ELSE failed_uploads' = failed_uploads /\ pc' = "uploading"]_vars
C6_Witness ==
    /\ retry_count = 3
    /\ counted = "failed"
    /\ pc = "loop"
    /\ failed_uploads = 1

\* an upload attempt that failed otherwise than by a 429
OtherFailure(o) ==
    \/ o.exc = "none" /\ o.value = None
    \/ o.exc = "RequestException" /\ (o.response = NoResponse \/ o.response.status # 429)
    \/ o.exc \notin {"none", "RequestException"}

\* C7: an attempt that ends in a failure other than a 429 increments
\* failed_uploads by one, changes no other counter and ends the repo: the
\* loop is left, so upload_link is not called for it again.
C7_OtherFailureEndsItem ==
    /\ []((calls >= 1 /\ OtherFailure(outcome)) => (counted = "failed" /\ pc # "uploading"))
    /\ [][(pc = "uploading" /\ calls' = calls + 1 /\ OtherFailure(outcome')) =>
            /\ failed_uploads' = failed_uploads + 1
            /\ successful_uploads' = successful_uploads
            /\ skipped_uploads' = skipped_uploads
            /\ pc' = "loop"]_vars
C7_Witness ==
    /\ calls = 1
    /\ outcome.exc = "RequestException"
    /\ outcome.response.status = 500
    /\ counted = "failed"
    /\ pc = "loop"

\* C8 as claimed: no error raised while one repo is processed ends the run.
C8_NoItemAbortsRun == ~(pc = "raised" /\ idx >= 1)

\* C9 as claimed: a call of upload_link that returns an identifier is counted
\* as created, one that returns LINK_EXISTS_GLOBALLY as skipped.
C9_CreatedCounted ==
    (ComposedRun /\ calls >= 1 /\ outcome.exc = "none") =>
        /\ outcome.value.type = "int" => counted = "created"
        /\ outcome.value = LINK_EXISTS_GLOBALLY => counted = "skipped"

\* C10: on a 409 whose body says "Link already exists" upload_link returns
\* LINK_EXISTS_GLOBALLY, which is neither None nor an identifier.
C10_ConflictGivesSentinel ==
    (ComposedRun /\ calls >= 1 /\ response.status = 409 /\ response.json = "str"
        /\ response.text = "Link already exists") =>
        /\ outcome.exc = "none"
        /\ outcome.value = LINK_EXISTS_GLOBALLY
        /\ outcome.value # None
        /\ \A n \in 0..next_id : outcome.value # PyInt(n)
C10_Witness ==
    /\ ComposedRun
    /\ calls = 1
    /\ response.status = 409
    /\ response.text = "Link already exists"
    /\ outcome.value = LINK_EXISTS_GLOBALLY
    /\ counted = "skipped"


\* the answers of the claim's three cases: another non-success status, a
\* request exception without response, a success body without an id
FailureResponse(r) ==
    /\ ~Created(r)
    /\ ~(r.status = 409 /\ r.json = "str" /\ r.text = "Link already exists")

\* C11 as claimed: a call of upload_link answered with any other non-success
\* status, with a request exception or with a success body that has no id
\* returns None, and no call raises a RequestException to run_update.
C11_FailureGivesNone ==
    (ComposedRun /\ calls >= 1) =>
        /\ outcome.exc # "RequestException"
        /\ FailureResponse(response) => outcome = Return(None, FALSE)


\* C12: the description upload_link sends has length min(n, 2048) for a
\* description of n characters; for n > 2048 it is the first 2045 characters
\* followed by "...", for n <= 2048 it is the description itself, and a
\* missing description is sent as the empty string.
C12_DescriptionTruncated ==
    \A d \in link_data :
        LET given == OrEmpty(description)
            n == Len(given)
            sent == d.description
        IN /\ Len(sent) = Min(n, 2048)
           /\ n > 2048 =>
                 /\ \A i \in 1..2045 : sent[i] = given[i]
                 /\ \A i \in 2046..2048 : sent[i] = "."
           /\ n <= 2048 => sent = given
           /\ description = None => sent = <<>>
C12_Witness ==
    \E d \in link_data :
        /\ description.type = "str"
        /\ Len(description.s) > 2048
        /\ Len(d.description) = 2048
        /\ d.description # SubSeq(description.s, 1, 2048)


\* C13 as claimed: get_existing_links yields no URL twice, also when the
\* destination returns two links of the collection with the same URL.
C13_EachUrlYieldedOnce ==
    \A i, j \in 1..Len(yielded) : i # j => yielded[i] # yielded[j]


UrlsOf(ls) == {ls[k].url : k \in DOMAIN ls}
InCollection(cid) == SelectSeq(links, LAMBDA l : l.collectionId = cid)

\* C14: when every listing request succeeded, existing_links is the set of
\* the URLs of the links the destination returned on the pages up to the one
\* without nextCursor, which are the links of the collection: none of their
\* URLs is missing and the set holds no other URL.
C14_SnapshotIsListedUrls ==
    (pc # "listing" /\ ~list_error) =>
        /\ existing_links = UrlsOf(returned)
        /\ (pc = "loop" /\ idx = 0) =>
              /\ existing_links = UrlsOf(InCollection(collection_id))
              /\ Len(returned) = Len(InCollection(collection_id))
C14_Witness ==
    /\ pc = "loop"
    /\ idx = 0
    /\ ~list_error
    /\ Len(requested) >= 3
    /\ Cardinality(existing_links) = 2
    /\ Len(InCollection(other_collection_id)) = 0


\* C15: a listing request that fails with a request error ends the
\* enumeration without an exception reaching run_update, no listing request
\* follows it, existing_links holds every URL yielded before the error, and
\* run_update goes on to its loop over the repos with that set.
C15_ListingErrorEndsListing ==
    /\ [](list_error =>
            /\ pc # "listing"
            /\ existing_links = Range(yielded)
            /\ existing_links = UrlsOf(returned)
            /\ idx = 0 => (pc \in {"loop", "done"} /\ exc = "none"))
    /\ [][(list_error /\ run' = run) =>
            /\ requested' = requested
            /\ yielded' = yielded
            /\ existing_links' = existing_links]_vars
    /\ [][(~list_error /\ list_error') =>
            /\ requested' = Append(requested, cursor)
            /\ yielded' = yielded
            /\ pc' = "loop"]_vars
C15_Witness ==
    /\ list_error
    /\ Len(requested) = 2
    /\ existing_links = {1}
    /\ Len(InCollection(collection_id)) = 2
    /\ pc = "done"
    /\ idx = 2


\* the current repo was skipped by the membership test of main.py:61
SkippedBySnapshot == idx >= 1 /\ counted = "skipped" /\ calls = 0

\* C16: a repo is skipped by the snapshot only if the destination returned,
\* during the listing of this run, a link of the chosen collection with the
\* repo's URL, and such a link is in the destination; this holds also when
\* the listing ended early on an error.
C16_SkipOnlyIfListed ==
    SkippedBySnapshot =>
        /\ \E k \in DOMAIN returned :
              /\ returned[k].url = repos[idx].html_url
              /\ returned[k].collectionId = collection_id
        /\ \E k \in DOMAIN links :
              /\ links[k].url = repos[idx].html_url
              /\ links[k].collectionId = collection_id
C16_Witness ==
    /\ SkippedBySnapshot
    /\ list_error
    /\ Len(returned) < Len(InCollection(collection_id))


\* links created since the current run began
CreatedThisRun == SelectSeq(links, LAMBDA l : l.id >= first_id)
ConflictResponse == Resp(409, "str", "Link already exists", FALSE, 0, 0, {})

\* C17: with upload_link and a destination that answers a create request for
\* a URL it holds with 409 "Link already exists", no link created in a run
\* has the URL of another link of the destination, whatever the snapshot
\* held; the repo so answered is counted as skipped; and successful_uploads
\* never exceeds the number of different URLs the run created.
C17_NoSecondLinkForUrl ==
    ComposedRun =>
        /\ \A k \in DOMAIN links :
              links[k].id >= first_id =>
                 \A j \in DOMAIN links : j # k => links[j].url # links[k].url
        /\ (calls >= 1 /\ response = ConflictResponse) =>
              (counted = "skipped" /\ outcome.value = LINK_EXISTS_GLOBALLY)
        /\ successful_uploads <= Cardinality(UrlsOf(CreatedThisRun))
C17_Witness ==
    /\ ComposedRun
    /\ list_error
    /\ existing_links = {}
    /\ calls = 1
    /\ response = ConflictResponse
    /\ counted = "skipped"
    /\ repos[idx].html_url \in UrlsOf(InCollection(collection_id))
    /\ successful_uploads = 1


\* the step is a call of starred.get_page that raised
PageRaised == page_requests' # page_requests /\ error'.cls # "none"

\* C18: a get_page that raises a rate-limit error is followed by one backoff
\* and a request for the same page number, the page number advancing only
\* on success; the repos yielded are those of the pages fetched, each once
\* and in order, and all totalCount repos once the generator has ended.
C18_RetrySamePage ==
    /\ [](source_pc # "raised" =>
            /\ source_yielded =
                  [i \in 1..Min(page_num * PerPage, totalCount) |-> i]
            /\ Len(source_sleeps) = Len(page_requests) - page_num)
    /\ [](page_requests # <<>> => page_requests[1] = 0)
    /\ [](source_pc = "done" =>
            source_yielded = [i \in 1..totalCount |-> i])
    /\ [][(PageRaised /\ source_pc' = "fetch") =>
            /\ Len(source_sleeps') = Len(source_sleeps) + 1
            /\ page_num' = page_num
            /\ source_yielded' = source_yielded]_vars
    /\ [][(page_requests' # page_requests /\ page_requests # <<>>) =>
            page_requests'[Len(page_requests')] =
               IF error.cls # "none"
               THEN page_requests[Len(page_requests)]
               ELSE page_requests[Len(page_requests)] + 1]_vars
C18_Witness ==
    /\ source_pc = "done"
    /\ totalCount = 61
    /\ Len(source_sleeps) = 1
    /\ page_requests = <<0, 1, 1, 2>>
    /\ Len(source_yielded) = 61


\* the rate-limit signals: the rate-limit exception, or another API error
\* with status 403 or 429 whose message speaks of a rate limit
RateLimitSignal(e) ==
    \/ e.cls = "RateLimitExceededException"
    \/ e.status \in {403, 429} /\ e.rate_limit_message

\* C19 as claimed: after a get_page that raised a rate-limit signal whose
\* Retry-After can be slept for, get_starred_repos has slept and is about to
\* request the same page again.
C19_SignalRetried ==
    [][(PageRaised /\ RateLimitSignal(error')
           /\ SourceBackoff(error').raised = "none") =>
          /\ source_pc' = "fetch"
          /\ page_num' = page_num
          /\ source_sleeps' = source_sleeps \o SourceBackoff(error').slept]_vars

\* C20: a get_page that raises an API error that is no rate-limit signal
\* ends get_starred_repos with that error at once: nothing is slept, nothing
\* more is yielded, and no page is requested afterwards.
C20_OtherErrorPropagates ==
    /\ [][(PageRaised /\ ~RateLimitSignal(error')) =>
            /\ source_pc' = "raised"
            /\ source_exc' = "GithubException"
            /\ source_sleeps' = source_sleeps
            /\ source_yielded' = source_yielded
            /\ page_num' = page_num]_vars
    /\ [][source_pc = "raised" =>
            /\ page_requests' = page_requests
            /\ source_yielded' = source_yielded
            /\ source_sleeps' = source_sleeps]_vars
C20_Witness ==
    /\ source_pc = "raised"
    /\ source_exc = "GithubException"
    /\ error.status = 403
    /\ ~error.rate_limit_message
    /\ totalCount = 61
    /\ page_requests = <<0, 1>>
    /\ Len(source_yielded) = 30
    /\ source_sleeps = <<>>


\* C21 as claimed: every call of handle_rate_limit for an error that carries
\* headers sleeps once.
C21_BlocksOncePerCall ==
    [][(PageRaised /\ IsRateLimitError(error') /\ error'.has_headers) =>
          Len(source_sleeps') = Len(source_sleeps) + 1]_vars


ReturnedId == calls = 1 /\ outcome.exc = "none" /\ outcome.value.type = "int"
ReturnedConflict ==
    calls = 1 /\ outcome.exc = "none" /\ outcome.value = LINK_EXISTS_GLOBALLY

\* C22 as claimed: with the source [A, B, C] and a snapshot that holds only
\* A's URL, A is skipped without a call of upload_link; when the call for B
\* returns an id, B is counted as created after that one call; when after
\* that the call for C returns the conflict sentinel, the run ends with
\* created = 1, failed = 0, skipped = 2.
C22_ScenarioSummary ==
    (run = 1 /\ pc \in {"loop", "done"} /\ existing_links = {A}) =>
        /\ idx = 1 => (calls = 0 /\ counted = "skipped")
        /\ (idx = 2 /\ ReturnedId) =>
              Summary = [created |-> 1, failed |-> 0, skipped |-> 1]
        /\ (idx = 3 /\ ReturnedConflict /\ successful_uploads = 1
               /\ failed_uploads = 0) =>
              Summary = [created |-> 1, failed |-> 0, skipped |-> 2]


\* a setup failure: credentials missing, authentication refused, or no
\* collection selected or created
SetupFailure ==
    failure \in {"credentials", "linkwarden_request", "linkwarden_auth",
                 "github_auth", "no_collection"}

\* C23 as claimed: the process ends with status 0 after a completed run,
\* whatever failed per item, and with a non-zero status after every setup
\* failure.
C23_ExitCodes ==
    main_pc = "exited" =>
        /\ SetupFailure => exit_code # {0}
        /\ failure = "none" => exit_code = {0}


\* the requests of run_update
RunRequests == {"list_links", "count_starred", "list_starred", "upload"}

\* C24: a process that ended because credentials were missing, the
\* collections could not be fetched, no collection was selected or created,
\* or Exit was chosen has sent no request of run_update: no listing of the
\* destination links, no listing of the source and no upload.
C24_AbortBeforeAnyItem ==
    (/\ main_pc = "exited"
     /\ \/ failure \in {"credentials", "linkwarden_request", "no_collection"}
        \/ flavor = 3) =>
        \A i \in DOMAIN issued : issued[i] \notin RunRequests
C24_Witness ==
    /\ main_pc = "exited"
    /\ flavor = 2
    /\ failure = "no_collection"
    /\ issued = <<"create_collection">>


\* C25: run_update hands its summary to the notifier once, in the step that
\* ends the run after the last repo was processed, with the final values of
\* the counters; whether or not the notification is delivered, that step
\* changes no counter and the run ends without an exception.
C25_SummaryNotifiedOnce ==
    /\ [](pc = "done" =>
            /\ Len(notifications) = 1
            /\ notifications[1].message = Summary
            /\ Total = Len(repos)
            /\ idx = Len(repos)
            /\ exc = "none")
    /\ [](pc # "done" => notifications = <<>>)
    /\ [][(notifications' # notifications /\ run' = run) =>
            /\ pc' = "done"
            /\ UNCHANGED counters
            /\ UNCHANGED exc]_vars
C25_Witness ==
    /\ pc = "done"
    /\ Len(repos) = 2
    /\ notifications[1].delivery = "failed"
    /\ notifications[1].message = [created |-> 1, failed |-> 1, skipped |-> 0]


\* the names the options other than the custom one ask for, in their order
OptionNames ==
    LET on == <<config_data.opt_tag_github, config_data.opt_tag_githubStars,
                config_data.opt_tag_language /\ HasLanguage(language),
                config_data.opt_tag_username>>
        names == <<GitHubName, GitHubStarsName,
                   IF HasLanguage(language) THEN language.s ELSE <<>>,
                   config_data.github_username>>
        RECURSIVE Pick(_)
        Pick(i) == IF i > 4 THEN <<>>
                   ELSE (IF on[i] THEN <<names[i]>> ELSE <<>>) \o Pick(i + 1)
    IN Pick(1)
\* the custom tags listed: the segments of opt_tag_custom that are not empty
ListedCustom ==
    SelectSeq(Split(config_data.opt_tag_custom), LAMBDA seg : Len(seg) > 0)

\* C26: build_tags returns [] when opt_tag is false; otherwise the names of
\* the tags returned are those of the enabled options GitHub, GitHub Stars,
\* language (if the repo has one) and username, in this order and once each,
\* followed by one tag for each listed custom tag, in the order listed.
C26_TagsInOrder ==
    \A t \in tags :
        /\ ~config_data.opt_tag => t = <<>>
        /\ config_data.opt_tag =>
              /\ Len(t) = Len(OptionNames) + Len(ListedCustom)
              /\ \A i \in 1..Len(OptionNames) : t[i].name = OptionNames[i]
              /\ \A i \in 1..Len(ListedCustom) :
                    t[Len(OptionNames) + i].name = Strip(ListedCustom[i])
C26_Witness ==
    \E t \in tags :
        /\ Len(t) = 6
        /\ t[3].name = <<"Z", "i", "g">>
        /\ t[5].name = <<"a">>
        /\ t[6].name = <<"a", "a">>


\* the ids of the batches submitted so far, in the order of submission
RECURSIVE Submitted(_)
Submitted(n) ==
    IF n = 0 THEN <<>> ELSE Submitted(n - 1) \o batches[n].ids

\* C27: delete_links is called only when delete_duplicate was asked for and
\* only after the listing loop has ended; each batch holds between 1 and 100
\* ids, the batches are consecutive slices of duplicate_link_ids, at the end
\* every collected id was submitted in exactly one batch, and a batch whose
\* deletion failed is followed by the remaining batches.
C27_BatchesAfterListing ==
    /\ [](batches # <<>> =>
            (delete_duplicate /\ delete_pc \in {"deleting", "ended"}))
    /\ [](\A b \in DOMAIN batches :
            Len(batches[b].ids) \in 1..100)
    /\ [](Submitted(Len(batches)) =
             SubSeq(to_delete, 1, Len(Submitted(Len(batches)))))
    /\ []((delete_pc = "ended" /\ delete_duplicate) =>
             Submitted(Len(batches)) = to_delete)
    /\ [][batches' # batches =>
            (delete_pc = "deleting" /\ to_delete' = to_delete)]_vars
C27_Witness ==
    /\ delete_pc = "ended"
    /\ Len(to_delete) = 201
    /\ Len(batches) = 3
    /\ batches[1].result = None
    /\ Len(batches[3].ids) = 1


\* the listing is under way or has just ended, without a request error and
\* without a URL returned twice
PlainListing ==
    /\ pc = "listing" \/ (pc = "loop" /\ idx = 0)
    /\ ~list_error
    /\ \A j, k \in DOMAIN returned :
          returned[j].url = returned[k].url => j = k
\* the page the destination returned to the listing request number k
PageOf(k) == ListPage(collection_id, requested[k])

\* C28: without a request error and without a repeated URL,
\* get_existing_links yields the URLs of the links in the order the
\* destination returned them; the first request carries the cursor 0, each
\* later request carries the id of the last link of the page before it, and
\* the listing ends at the first empty page.
C28_CursorFromLastLink ==
    PlainListing =>
        /\ yielded = [k \in DOMAIN returned |-> returned[k].url]
        /\ \A k \in DOMAIN requested :
              IF k = 1
              THEN requested[k] = {0}
              ELSE /\ PageOf(k - 1) # <<>>
                   /\ requested[k] =
                         {PageOf(k - 1)[Len(PageOf(k - 1))].id}
        /\ (pc = "loop" /\ requested # <<>>) =>
              PageOf(Len(requested)) = <<>>


\* C29: existing_links is built by the listing at the start of a run, while
\* no repo has been examined; the listing is entered only when a run starts;
\* and once the listing is over no step of the run changes existing_links,
\* so the URL of a link created in the run is not added to it.
C29_SnapshotNotRefreshed ==
    /\ [](pc = "listing" =>
            (idx = 0 /\ progress = 0 /\ calls = 0 /\ counted = "none"))
    /\ [][pc' = "listing" => (pc = "listing" \/ run' # run)]_vars
    /\ [][(pc # "listing" /\ run' = run) =>
             existing_links' = existing_links]_vars
C29_Witness ==
    /\ pc = "uploading"
    /\ idx >= 2
    /\ repos[idx].html_url = repos[idx - 1].html_url
    /\ repos[idx].html_url \in UrlsOf(CreatedThisRun)
    /\ repos[idx].html_url \notin existing_links


\* the repos the for loop is done with
Resolved == IF pc = "uploading" THEN idx - 1 ELSE idx

\* C30: the repos are examined one after the other in the order of the
\* source (idx advances by one); the membership test of the next repo is made
\* only when the current repo is resolved (its calls of upload_link, its
\* backoffs and its counter increment are over and the progress bar counts
\* it); calls, backoffs and created links belong to the current repo, and a
\* counter is incremented for the current repo or, on a skip, for the repo
\* just tested.
C30_OneRepoAtATime ==
    /\ [](pc \in {"loop", "uploading"} => progress = Resolved)
    /\ [](pc = "uploading" => (idx >= 1 /\ counted = "none"))
    /\ [][(idx' # idx /\ run' = run) =>
             /\ idx' = idx + 1
             /\ pc = "loop"
             /\ progress = idx
             /\ calls' = 0 /\ sleeps' = <<>> /\ retry_count' = 0]_vars
    /\ [][(run' = run /\ (calls' # calls \/ sleeps' # sleeps
                            \/ links' # links) /\ idx' = idx) =>
             /\ pc = "uploading"
             /\ links' # links =>
                   /\ Len(links') = Len(links) + 1
                   /\ links'[Len(links')].url = repos[idx].html_url]_vars
    /\ [][(run' = run /\ progress' # progress) =>
             /\ progress' = progress + 1
             /\ \/ pc = "uploading" /\ idx' = idx
                \/ /\ pc = "loop" /\ idx' = idx + 1
                   /\ skipped_uploads' = skipped_uploads + 1
                   /\ repos[idx'].html_url \in existing_links]_vars
C30_Witness ==
    /\ pc = "uploading"
    /\ idx = 2
    /\ progress = 1
    /\ calls = 2
    /\ sleeps # <<>>
    /\ successful_uploads + failed_uploads + skipped_uploads = 1


\* C31: get_starred_repos asks for the pages 0 .. ceil(totalCount / 30) - 1
\* in increasing order, a page being asked again only after a rate limit;
\* totalCount, read before the first page, does not change; page_num advances
\* by one and only in the step that fetched the page and yielded its repos;
\* and the sequence yielded is finite: it has totalCount repos when the
\* generator is exhausted and never more.
C31_PagesInOrder ==
    /\ [](\A k \in DOMAIN page_requests :
            /\ page_requests[k] \in 0..(total_pages - 1)
            /\ k = 1 => page_requests[k] = 0)
    /\ [](\A j, k \in DOMAIN page_requests :
            j < k => /\ page_requests[j] <= page_requests[k]
                     /\ k = j + 1 => page_requests[k] <= page_requests[j] + 1)
    /\ [](Len(source_yielded) <= totalCount)
    /\ [](source_pc = "done" =>
            /\ {page_requests[k] : k \in DOMAIN page_requests} =
                  0..(total_pages - 1)
            /\ source_yielded = [k \in 1..totalCount |-> k])
    /\ [][totalCount' = totalCount]_vars
    /\ [][page_num' # page_num =>
            /\ page_num' = page_num + 1
            /\ page_requests' = Append(page_requests, page_num)
            /\ source_yielded' = source_yielded \o PageItems(page_num)]_vars
C31_Witness ==
    /\ source_pc = "done"
    /\ total_pages = 3
    /\ Len(page_requests) = 5
    /\ Len(source_yielded) = 61


\* C32: a call of upload_link answered with 409 returns LINK_EXISTS_GLOBALLY
\* when the body says "Link already exists" and returns None for every other
\* body; it never returns an id and never raises.
C32_ConflictOnlyWhenBodySaysSo ==
    (ComposedRun /\ calls >= 1 /\ response.status = 409) =>
        outcome = IF response.json = "str"
                     /\ response.text = "Link already exists"
                  THEN Return(LINK_EXISTS_GLOBALLY, FALSE)
                  ELSE Return(None, FALSE)


\* C33: the page-based listing stops at the first page without a new URL;
\* the page number advances by one and only in a step that found a new URL; the number
\* of requests is at most the number of different URLs seen plus one,
\* whatever the destination answers (also the same page for every page
\* number); and the listing ends.
C33_PageListingEnds ==
    /\ [](\A k \in DOMAIN page_log :
            /\ page_log[k].page = k
            /\ page_log[k].new = 0 =>
                  (k = Len(page_log) /\ legacy_pc = "ended"))
    /\ [](Len(page_log) <= Cardinality(seen_links) + 1)
    /\ [](Cardinality(seen_links) <= MaxLegacyUrls)
    /\ [][legacy_page' # legacy_page =>
            /\ legacy_page' = legacy_page + 1
            /\ seen_links' # seen_links
            /\ seen_links \subseteq seen_links']_vars
    /\ <>(legacy_pc = "ended")
C33_Witness ==
    /\ legacy_pc = "ended"
    /\ Len(page_log) = 2
    /\ page_log[1].new = 2
    /\ page_log[2].page = 2
    /\ Cardinality(seen_links) = 2
    /\ legacy_yielded = <<1, 2>>


\* C34: the cursor-based get_existing_links asks for no cursor twice, also
\* when the destination returns a nextCursor it has returned before, so the
\* number of its requests is at most the number of cursors of the
\* destination plus one.
C34_NoCursorTwice ==
    /\ \A j, k \in DOMAIN requested : requested[j] = requested[k] => j = k
    /\ Len(requested) <= Cardinality(AnyCursors)


\* C35: when the rate limits are finitely many, get_starred_repos ends: it
\* is exhausted or it raises; it raises only for an error that is no rate
\* limit or when handle_rate_limit raises, never because a page was retried
\* too often, and after every backoff the same page is fetched again.
C35_SourceEnds ==
    /\ <>(source_pc \in {"done", "raised"})
    /\ [](source_pc = "raised" =>
            (~IsRateLimitError(error) \/ SourceBackoff(error).raised # "none"))
    /\ []((source_pc = "fetch" /\ error # NoError) =>
            page_requests[Len(page_requests)] = page_num)
C35_Witness ==
    /\ source_pc = "done"
    /\ total_pages = 1
    /\ page_requests = <<0, 0, 0>>
    /\ Len(source_sleeps) = 2


C38_NoEmptyTagName ==
    \A t \in tags : \A i \in DOMAIN t : t[i].name # <<>>

====
